---- MODULE Spec2Model ----
(***************************************************************************)
(* Model of the multi-led-grid service (src/src/main.py) and of its        *)
(* distributed dispatcher execute_distributed_command.                     *)
(*                                                                         *)
(* A task is one coroutine: either a do_command request of the service or  *)
(* a direct call of execute_distributed_command (as src/test/test.py       *)
(* makes).  A task runs atomically from one await to the next; the awaits  *)
(* are the controller call (main.py:309) and the settle sleep              *)
(* (main.py:314).                                                          *)
(***************************************************************************)
EXTENDS Integers, Sequences, FiniteSets, TLC

VARIABLES
    board_names,    \* MultiLEDGridService.board_names (class attribute)
    boards,         \* MultiLEDGridService.boards (class attribute, a list)
    grid_width,     \* MultiLEDGridService.grid_width
    grid_height,    \* MultiLEDGridService.grid_height
    sleep_time,     \* MultiLEDGridService.sleep_time
    converter,      \* self.text_to_led_converter: its grid_width, grid_height
    pc,             \* per task: where the coroutine is suspended
    frame,          \* per task: the locals of execute_distributed_command
    result,         \* per task: what the call returned or raised
    log,            \* the controller calls and sleeps, in global order
    grid_img,       \* text_to_led_payload called on its own: the composed image
    payload         \* text_to_led_payload called on its own: what it returned

vars == <<board_names, boards, grid_width, grid_height, sleep_time, converter,
          pc, frame, result, log, grid_img, payload>>

config == <<board_names, boards, grid_width, grid_height, sleep_time, converter>>

-----------------------------------------------------------------------------
(* Bounds of the model.                                                    *)

\* Largest range endpoint of a directly supplied range list.
MaxIndex == 2
\* Largest number of entries of a directly supplied global payload.
MaxPayload == 2
\* Largest number of painted pixels of a composed grid image.
MaxLit == 1
\* Largest length the class-level board list is followed to.
MaxBoards == 3

\* Width and height of the grid images whose payload is extracted on its own.
MaxWidth == 2
MaxHeight == 2

(* Program constants.                                                      *)
FirstRangeEnd == 7
SecondRangeStart == 8
DefaultGridHeight == 16
DefaultGridWidth == 140
DefaultSleepTime == 1

Tasks == {1, 2}

None == [none |-> TRUE]

-----------------------------------------------------------------------------
(* Strings of digits and their conversions.  A string is a sequence of     *)
(* one-character strings.                                                  *)

Digits == <<"0", "1", "2", "3", "4", "5", "6", "7", "8", "9">>

IsDigit(c) == \E k \in 1..10 : Digits[k] = c

DigitValue(c) == (CHOOSE k \in 1..10 : Digits[k] = c) - 1

\* str(n) of a Python int
RECURSIVE str(_)
str(n) ==
    IF n < 0 THEN <<"-">> \o str(0 - n)
    ELSE IF n < 10 THEN <<Digits[n + 1]>>
    ELSE Append(str(n \div 10), Digits[(n % 10) + 1])

\* whether int(s) succeeds: here, on the non-empty strings of digits
IsInt(s) == Len(s) > 0 /\ \A k \in 1..Len(s) : IsDigit(s[k])

\* int(s) of a string of digits (leading zeros are accepted)
RECURSIVE int(_)
int(s) ==
    IF Len(s) = 0 THEN 0
    ELSE 10 * int(SubSeq(s, 1, Len(s) - 1)) + DigitValue(s[Len(s)])

-----------------------------------------------------------------------------
(* Commands and payloads.                                                  *)

Black == <<0, 0, 0>>
White == <<255, 255, 255>>

\* {"set_animation": "solid", "color": [0, 0, 0]}
SolidBlack == [set_animation |-> "solid", color |-> Black]

\* {"set_pixel_colors": {...}}
SetPixelColors(pixels) == [set_pixel_colors |-> pixels]

\* A dict with no entries.
EmptyDict == [k \in {} |-> None]

\* d[k] = v of a dict modelled as a function
DictSet(d, k, v) == [x \in (DOMAIN d) \cup {k} |-> IF x = k THEN v ELSE d[x]]

ClearWord == <<"c", "l", "e", "a", "r">>


-----------------------------------------------------------------------------
(* execute_distributed_command: grouping the commands by component.        *)

\* RangeOf with a wrong fallback: an index no range holds goes to the last
\* range.
RangeOfOrLast(global_index, index_ranges) ==
    LET hits == {k \in 1..Len(index_ranges) :
                    /\ index_ranges[k][1] <= global_index
                    /\ global_index <= index_ranges[k][2]}
    IN  IF hits = {} THEN Len(index_ranges)
        ELSE CHOOSE k \in hits : \A j \in hits : k <= j

\* The inner loop "for component_idx, (start, end) in enumerate(index_ranges)"
\* with its break: the position of the first range that holds global_index,
\* 0 when no range does.
RangeOf(global_index, index_ranges) ==
    LET hits == {k \in 1..Len(index_ranges) :
                    /\ index_ranges[k][1] <= global_index
                    /\ global_index <= index_ranges[k][2]}
    IN  IF hits = {} THEN 0
        ELSE CHOOSE k \in hits : \A j \in hits : k <= j

\* RelativeIndex without the rebasing.
RelativeIndexGlobal(global_index, start) == global_index

\* relative_index = global_index - start
RelativeIndex(global_index, start) == global_index - start

\* component_commands[component_idx][str(relative_index)] = command_data,
\* the component's dict being created at the end of component_commands when
\* it is not there yet.
AddCommand(component_commands, component_idx, key, command_data) ==
    IF \E p \in 1..Len(component_commands) :
            component_commands[p].idx = component_idx
    THEN LET p == CHOOSE q \in 1..Len(component_commands) :
                      component_commands[q].idx = component_idx
         IN  [component_commands EXCEPT
                 ![p].commands = DictSet(@, key, command_data)]
    ELSE Append(component_commands,
                [idx |-> component_idx,
                 commands |-> DictSet(EmptyDict, key, command_data)])

\* GroupEntry with an index no range holds handed to the first component.
GroupEntryNearest(component_commands, entry, index_ranges) ==
    LET global_index == int(entry.key)
        m == RangeOf(global_index, index_ranges)
    IN  IF m = 0
        THEN AddCommand(component_commands, 0, str(global_index), entry.data)
        ELSE AddCommand(component_commands, m - 1,
                        str(RelativeIndex(global_index, index_ranges[m][1])),
                        entry.data)

\* One iteration of "for global_index, command_data in global_payload.items()".
GroupEntry(component_commands, entry, index_ranges) ==
    LET global_index == int(entry.key)
        m == RangeOf(global_index, index_ranges)
    IN  IF m = 0 THEN component_commands
        ELSE AddCommand(component_commands, m - 1,
                        str(RelativeIndex(global_index, index_ranges[m][1])),
                        entry.data)

\* The grouping loop over the first n entries of the payload.
RECURSIVE GroupUpTo(_, _, _)
GroupUpTo(global_payload, index_ranges, n) ==
    IF n = 0 THEN <<>>
    ELSE GroupEntry(GroupUpTo(global_payload, index_ranges, n - 1),
                    global_payload[n], index_ranges)

\* The whole grouping loop: int() raises ValueError on a key that is no
\* number, before any command is issued.
GroupCommands(global_payload, index_ranges) ==
    IF \E p \in 1..Len(global_payload) : ~IsInt(global_payload[p].key)
    THEN [error |-> "ValueError", component_commands |-> <<>>]
    ELSE [error |-> "none",
          component_commands |->
              GroupUpTo(global_payload, index_ranges, Len(global_payload))]

-----------------------------------------------------------------------------
(* execute_distributed_command: issuing the commands.                      *)

NoFrame ==
    [stage |-> "none", components |-> <<>>, global_payload |-> <<>>,
     index_ranges |-> <<>>, sleep_time |-> 0, component_commands |-> <<>>,
     pos |-> 0]

Event(r, f, kind, p) ==
    [task |-> r, stage |-> f.stage, kind |-> kind,
     comp |-> f.component_commands[p].idx,
     handle |-> f.components[f.component_commands[p].idx + 1],
     commands |-> IF kind = "call" THEN f.component_commands[p].commands
                  ELSE EmptyDict]

\* "for component_idx, commands in component_commands.items(): if commands:"
\* the next position, from pos on, whose commands are not empty; 0 if none.
NextCall(component_commands, pos) ==
    LET todo == {p \in pos..Len(component_commands) :
                    DOMAIN component_commands[p].commands # {}}
    IN  IF todo = {} THEN 0
        ELSE CHOOSE p \in todo : \A q \in todo : p <= q

\* The dispatch loop from position pos up to its next await: the call of the
\* next component that has commands, or the end of the loop.
LoopFrom(r, f, pos) ==
    LET p == NextCall(f.component_commands, pos)
    IN  IF p = 0
        THEN [pc |-> "loopdone", frame |-> f, result |-> "none",
              events |-> <<>>]
        ELSE IF f.component_commands[p].idx + 1 > Len(f.components)
        THEN [pc |-> "raised", frame |-> f, result |-> "IndexError",
              events |-> <<>>]
        ELSE [pc |-> "awaitCall", frame |-> [f EXCEPT !.pos = p],
              result |-> "none",
              events |-> <<Event(r, [f EXCEPT !.pos = p], "call", p)>>]

\* execute_distributed_command(components, global_payload, index_ranges,
\* sleep_time) from its entry up to its first await.
Execute(r, stage, components, global_payload, index_ranges, sleep) ==
    LET g == GroupCommands(global_payload, index_ranges)
        f == [stage |-> stage, components |-> components,
              global_payload |-> global_payload,
              index_ranges |-> index_ranges, sleep_time |-> sleep,
              component_commands |-> g.component_commands, pos |-> 0]
    IN  IF g.error # "none"
        THEN [pc |-> "raised", frame |-> f, result |-> g.error,
              events |-> <<>>]
        ELSE LoopFrom(r, f, 1)


-----------------------------------------------------------------------------
(* The payload builders.                                                   *)

\* create_clear_payload(grid_width=140, grid_height=16): one solid black
\* command per strip in range(grid_height); grid_width is not used.
create_clear_payload(grid_width_arg, grid_height_arg) ==
    [p \in 1..grid_height_arg |-> [key |-> str(p - 1), data |-> SolidBlack]]

\* The elements of a set of integers in ascending order.
RECURSIVE Ascending(_)
Ascending(S) ==
    IF S = {} THEN <<>>
    ELSE LET m == CHOOSE x \in S : \A y \in S : x <= y
         IN  <<m>> \o Ascending(S \ {m})

\* A composed grid image: its size and the pixels painted onto the black
\* ground, a function from <<x, y>> to a colour.
ImageOf(width, height, pix) == [width |-> width, height |-> height, pix |-> pix]

\* text_to_led_payload without the test for black: every pixel of the image
\* gets an entry.
text_to_led_payload_every(img) ==
    LET lit == {c \in DOMAIN img.pix :
                   /\ c[1] \in 0..(img.width - 1)
                   /\ c[2] \in 0..(img.height - 1)}
        rows == Ascending({c[2] : c \in lit})
        leds(y) == {c[1] : c \in {d \in lit : d[2] = y}}
        pixels(y) == [k \in {str(x) : x \in leds(y)} |->
                         img.pix[<<CHOOSE x \in leds(y) : str(x) = k, y>>]]
    IN  [p \in 1..Len(rows) |->
            [key |-> str(rows[p]), data |-> SetPixelColors(pixels(rows[p]))]]

\* Step 5 of text_to_led_payload: the rows y and leds x of the grid image
\* whose colour is not black, as {str(y): {"set_pixel_colors": {str(x): c}}}.
text_to_led_payload(img) ==
    LET lit == {c \in DOMAIN img.pix :
                   /\ img.pix[c] # Black
                   /\ c[1] \in 0..(img.width - 1)
                   /\ c[2] \in 0..(img.height - 1)}
        rows == Ascending({c[2] : c \in lit})
        leds(y) == {c[1] : c \in {d \in lit : d[2] = y}}
        pixels(y) == [k \in {str(x) : x \in leds(y)} |->
                         img.pix[<<CHOOSE x \in leds(y) : str(x) = k, y>>]]
    IN  [p \in 1..Len(rows) |->
            [key |-> str(rows[p]), data |-> SetPixelColors(pixels(rows[p]))]]

\* The subsets of S of at most k elements.
RECURSIVE UpTo(_, _)
UpTo(S, k) ==
    IF k = 0 THEN {{}}
    ELSE LET smaller == UpTo(S, k - 1)
         IN  smaller \cup {T \cup {x} : x \in S, T \in smaller}

\* The grid images the external rasteriser is taken to produce for a
\* converter: at most MaxLit white pixels, on the last led of some of the
\* given rows.
ImagesOn(conv, rows) ==
    LET coords == {<<conv.grid_width - 1, y>> :
                      y \in rows \cap (0..(conv.grid_height - 1))}
        sets == UpTo(coords, MaxLit)
    IN  IF conv.grid_width < 1 THEN {ImageOf(conv.grid_width, conv.grid_height, EmptyDict)}
        ELSE {ImageOf(conv.grid_width, conv.grid_height, [c \in S |-> White]) :
                 S \in sets}

\* The images painted on any rows, and those painted on the first and the
\* last row only.
Images(conv) == ImagesOn(conv, 0..(conv.grid_height - 1))
EdgeImages(conv) == ImagesOn(conv, {0, conv.grid_height - 1})

-----------------------------------------------------------------------------
(* MultiLEDGridService.                                                    *)

\* _get_index_ranges
_get_index_ranges(boards_, grid_width_) ==
    (IF Len(boards_) >= 1 THEN <<<<0, FirstRangeEnd>>>> ELSE <<>>)
    \o (IF Len(boards_) >= 2
        THEN <<<<SecondRangeStart, grid_width_ - 1>>>> ELSE <<>>)

\* The value kinds of a field of a display command.
FieldKinds == {"absent", "num", "nonnum"}
ColorKinds == {"absent", "rgb", "notTriple", "nonnumChannel", "outOfRange"}
TextKinds == {"absent", "str"}

\* The bodies of a "text" or "time" command: a mapping with its fields, or a
\* value that is no mapping (a string, a number).
DisplayBodies ==
    [shape : {"mapping"}, x_position : FieldKinds, y_position : FieldKinds,
     x_offset : FieldKinds, y_offset : FieldKinds, color : ColorKinds,
     rotation : FieldKinds, text : TextKinds]
    \cup
    [shape : {"string", "number"}, x_position : {"absent"},
     y_position : {"absent"}, x_offset : {"absent"}, y_offset : {"absent"},
     color : {"absent"}, rotation : {"absent"}, text : {"absent"}]

\* _parse_display_command: the error it raises, "none" when it returns the
\* parsed parameters.
_parse_display_command(command_data) ==
    IF command_data.shape = "number"
    THEN "TypeError"
    ELSE IF command_data.shape = "string"
              \/ command_data.x_position = "absent"
              \/ command_data.y_position = "absent"
    THEN "ValueError: x_position and y_position are required"
    ELSE IF command_data.x_position = "nonnum" \/ command_data.y_position = "nonnum"
    THEN "ValueError: x_position and y_position must be numeric values"
    ELSE IF /\ command_data.x_offset # "absent"
            /\ command_data.y_offset # "absent"
            /\ (command_data.x_offset = "nonnum" \/ command_data.y_offset = "nonnum")
    THEN "ValueError: x_offset and y_offset must be numeric values"
    ELSE IF command_data.color \in {"notTriple", "nonnumChannel", "outOfRange"}
    THEN "ValueError: Invalid color format"
    ELSE IF command_data.rotation = "nonnum"
    THEN "ValueError: rotation must be a numeric value"
    ELSE "none"

\* The two calls of execute_distributed_command in one round of the test
\* driver's loop (test.py:76, 86).
TestStages == {"test_clear", "test_draw"}

\* "await asyncio.sleep(sleep_time)" of the test driver (test.py:77, 87):
\* it belongs to no component.
TestSleep(r, f) ==
    [task |-> r, stage |-> f.stage, kind |-> "sleep", comp |-> 0 - 1,
     handle |-> "none", commands |-> EmptyDict]

\* What a task does once a dispatch loop has ended: after the clear of
\* _display_text the text payload is built and dispatched (main.py:205-216);
\* after the draw or the passthrough do_command returns {"success": True};
\* a direct call returns; the test driver goes on to its own sleep.
RECURSIVE AfterLoop(_, _, _)
AfterLoop(r, f, img) ==
    IF f.stage = "clear"
    THEN LET d == Execute(r, "draw", boards, text_to_led_payload(img),
                          f.index_ranges, sleep_time)
         IN  IF d.pc = "loopdone" THEN AfterLoop(r, d.frame, img) ELSE d
    ELSE IF f.stage \in TestStages
    THEN [pc |-> "awaitTestSleep", frame |-> f, result |-> "none",
          events |-> <<TestSleep(r, f)>>]
    ELSE [pc |-> "returned", frame |-> f,
          result |-> IF f.stage = "direct" THEN "None" ELSE "success",
          events |-> <<>>]

\* The task from position pos of its dispatch loop up to its next await.
Resume(r, f, pos, img) ==
    LET a == LoopFrom(r, f, pos)
    IN  IF a.pc = "loopdone" THEN AfterLoop(r, a.frame, img) ELSE a

\* execute_distributed_command called by the task, up to its next await.
Dispatch(r, stage, components, global_payload, index_ranges, sleep, img) ==
    LET a == Execute(r, stage, components, global_payload, index_ranges, sleep)
    IN  IF a.pc = "loopdone" THEN AfterLoop(r, a.frame, img) ELSE a

\* _display_text up to its first await: the clear payload and its dispatch.
_display_text(r, img) ==
    Dispatch(r, "clear", boards,
             create_clear_payload(grid_height, DefaultGridHeight),
             _get_index_ranges(boards, grid_width), sleep_time, img)

\* Whether the segment that resumes the loop of frame f at pos builds the
\* text payload (and so consumes a rasterised image).
Rasterises(f, pos) ==
    f.stage = "clear" /\ NextCall(f.component_commands, pos) = 0

NoImage == ImageOf(0, 0, EmptyDict)

\* text_to_led_payload has not returned.
NotReturned == [returned |-> FALSE, value |-> <<>>]


\* The commands of do_command: a "text" or a "time" command with its body,
\* or any other mapping, which is passed through as a global payload.
TextCommand(body) == [type |-> "text", body |-> body, payload |-> <<>>]
TimeCommand(body) == [type |-> "time", body |-> body, payload |-> <<>>]
RawCommand(command) == [type |-> "raw", body |-> None, payload |-> command]

\* The "clear" request: {"clear": {}}.
ClearCommand == RawCommand(<<[key |-> ClearWord, data |-> EmptyDict]>>)

Raise(error) ==
    [pc |-> "raised", frame |-> NoFrame, result |-> error, events |-> <<>>]

\* do_command with the text looked for only once the display has begun.
do_command_text_late(r, command, img) ==
    IF command.type = "text"
    THEN LET error == _parse_display_command(command.body)
             shown == _display_text(r, img)
         IN  IF error # "none" THEN Raise(error)
             ELSE IF command.body.text = "absent"
             THEN [shown EXCEPT
                      !.pc = "raised",
                      !.result = "ValueError: text is required in text command"]
             ELSE shown
    ELSE IF command.type = "time"
    THEN LET error == _parse_display_command(command.body)
         IN  IF error # "none" THEN Raise(error)
             ELSE _display_text(r, img)
    ELSE Dispatch(r, "raw", boards, command.payload,
                  _get_index_ranges(boards, grid_width), sleep_time, img)

\* do_command up to its first await.
do_command(r, command, img) ==
    IF command.type = "text"
    THEN LET error == _parse_display_command(command.body)
         IN  IF error # "none" THEN Raise(error)
             ELSE IF command.body.text = "absent"
             THEN Raise("ValueError: text is required in text command")
             ELSE _display_text(r, img)
    ELSE IF command.type = "time"
    THEN LET error == _parse_display_command(command.body)
         IN  IF error # "none" THEN Raise(error)
             ELSE _display_text(r, img)
    ELSE Dispatch(r, "raw", boards, command.payload,
                  _get_index_ranges(boards, grid_width), sleep_time, img)

-----------------------------------------------------------------------------
(* The inputs.                                                             *)

BoardLists == {<<>>, <<"led-col-1">>, <<"led-col-1", "led-col-2">>}
GridWidths == {8, 16, 17}
GridHeights == {8, 16}
SleepTimes == {0, DefaultSleepTime}

\* The components and sleep times of a direct call (test.py:38).
TestComponents == <<"led-col-1", "led-col-2">>

\* The keys of a directly supplied payload: the numbers up to MaxIndex + 1,
\* plain and with a leading zero, and a word.
KeyStrings ==
    {str(n) : n \in 0..(MaxIndex + 1)}
    \cup {<<"0">> \o str(n) : n \in 0..(MaxIndex + 1)}
    \cup {ClearWord}

\* The command data of the p-th entry of a directly supplied payload: every
\* entry carries its own data.
EntryData(p) ==
    IF p = 1 THEN SolidBlack
    ELSE SetPixelColors(DictSet(EmptyDict, str(p), White))

\* The payloads: up to MaxPayload entries under distinct keys, in any order.
Payloads ==
    LET keyseqs == UNION {[1..n -> KeyStrings] : n \in 0..MaxPayload}
    IN  {[p \in 1..Len(ks) |-> [key |-> ks[p], data |-> EntryData(p)]] :
            ks \in {k \in keyseqs :
                       \A i, j \in 1..Len(k) : i # j => k[i] # k[j]}}

\* The ranges and the converter of the test driver (test.py:39, 66).
TestIndexRanges ==
    <<<<0, FirstRangeEnd>>, <<SecondRangeStart, DefaultGridHeight - 1>>>>
TestConverter ==
    [grid_width |-> DefaultGridWidth, grid_height |-> DefaultGridHeight]

\* The range lists: at most one (start, end) per component, start <= end,
\* in any order, overlapping or not.
RangeLists ==
    LET pairs == {<<a, b>> : a \in 0..MaxIndex, b \in 0..MaxIndex}
        ranges == {pr \in pairs : pr[1] <= pr[2]}
    IN  UNION {[1..n -> ranges] : n \in 0..Len(TestComponents)}

-----------------------------------------------------------------------------
(* The actions.                                                            *)

Apply(r, a, before) ==
    /\ pc' = [pc EXCEPT ![r] = a.pc]
    /\ frame' = [frame EXCEPT ![r] = a.frame]
    /\ result' = [result EXCEPT ![r] = a.result]
    /\ log' = log \o before \o a.events
    /\ UNCHANGED <<config, grid_img, payload>>

\* validate_config followed by reconfigure, with every board a dependency.
Configure(names, gw, gh, st) ==
    /\ Len(boards) + Len(names) <= MaxBoards
    /\ board_names' = names
    /\ grid_width' = gw
    /\ grid_height' = gh
    /\ sleep_time' = (IF st.present THEN st.value ELSE sleep_time)
    /\ boards' = boards \o names
    /\ converter' = [grid_width |-> gh, grid_height |-> gw]
    /\ UNCHANGED <<pc, frame, result, log, grid_img, payload>>

\* Whether a display command builds its text payload before any await: when
\* the clear issues no call.
RastersAtOnce ==
    Execute(1, "clear", boards,
            create_clear_payload(grid_height, DefaultGridHeight),
            _get_index_ranges(boards, grid_width), sleep_time).pc = "loopdone"

\* A client calls do_command with one of the commands.
DoCommand(r, commands, images) ==
    /\ pc[r] = "idle"
    /\ converter # None
    /\ \E command \in commands :
          \E img \in (IF /\ command.type # "raw"
                         /\ _parse_display_command(command.body) = "none"
                         /\ RastersAtOnce
                      THEN images ELSE {NoImage}) :
             Apply(r, do_command(r, command, img), <<>>)

\* The test driver calls execute_distributed_command.
Call(r, components, payloads, rangelists, sleeps) ==
    /\ pc[r] = "idle"
    /\ \E global_payload \in payloads, index_ranges \in rangelists,
          sleep \in sleeps :
          Apply(r, Dispatch(r, "direct", components, global_payload,
                            index_ranges, sleep, NoImage), <<>>)

\* CallReturns with the sleep only between two calls of a dispatch: none
\* after the last call.
CallReturnsBetween(r, images) ==
    /\ pc[r] = "awaitCall"
    /\ LET f == frame[r]
           ok == Event(r, f, "ok", f.pos)
       IN  IF f.sleep_time > 0 /\ NextCall(f.component_commands, f.pos + 1) # 0
           THEN Apply(r, [pc |-> "awaitSleep", frame |-> f, result |-> "none",
                          events |-> <<Event(r, f, "sleep", f.pos)>>], <<ok>>)
           ELSE \E img \in (IF Rasterises(f, f.pos + 1)
                            THEN images ELSE {NoImage}) :
                   Apply(r, Resume(r, f, f.pos + 1, img), <<ok>>)

\* "await component.do_command(commands)" returns: the settle sleep starts
\* if sleep_time > 0, else the loop goes on.
CallReturns(r, images) ==
    /\ pc[r] = "awaitCall"
    /\ LET f == frame[r]
           ok == Event(r, f, "ok", f.pos)
       IN  IF f.sleep_time > 0
           THEN Apply(r, [pc |-> "awaitSleep", frame |-> f, result |-> "none",
                          events |-> <<Event(r, f, "sleep", f.pos)>>], <<ok>>)
           ELSE \E img \in (IF Rasterises(f, f.pos + 1)
                            THEN images ELSE {NoImage}) :
                   Apply(r, Resume(r, f, f.pos + 1, img), <<ok>>)

\* CallFails with the exception swallowed: the loop goes on.
CallFailsSwallowed(r) ==
    /\ pc[r] = "awaitCall"
    /\ Apply(r, Resume(r, frame[r], frame[r].pos + 1, NoImage),
             <<Event(r, frame[r], "error", frame[r].pos)>>)

\* "await component.do_command(commands)" raises: the exception leaves
\* execute_distributed_command, _display_text and do_command.
CallFails(r) ==
    /\ pc[r] = "awaitCall"
    /\ Apply(r, [pc |-> "raised", frame |-> frame[r],
                 result |-> "ControllerError", events |-> <<>>],
             <<Event(r, frame[r], "error", frame[r].pos)>>)

\* "await asyncio.sleep(sleep_time)" ends: the loop goes on.
SleepEnds(r, images) ==
    /\ pc[r] = "awaitSleep"
    /\ \E img \in (IF Rasterises(frame[r], frame[r].pos + 1)
                   THEN images ELSE {NoImage}) :
          Apply(r, Resume(r, frame[r], frame[r].pos + 1, img), <<>>)

\* One round of the test driver's loop begins: the clear payload is
\* dispatched with the default sleep_time of 0 (test.py:75-76).
TestClear(r) ==
    /\ pc[r] = "idle"
    /\ Apply(r, Dispatch(r, "test_clear", TestComponents,
                         create_clear_payload(DefaultGridWidth, DefaultGridHeight),
                         TestIndexRanges, 0, NoImage), <<>>)

\* The driver's "await asyncio.sleep(sleep_time)" ends: after the clear the
\* text payload is built and dispatched (test.py:79-86); after the text the
\* round is over (test.py:87).
TestSleepEnds(r, images) ==
    /\ pc[r] = "awaitTestSleep"
    /\ IF frame[r].stage = "test_clear"
       THEN \E img \in images :
               Apply(r, Dispatch(r, "test_draw", TestComponents,
                                 text_to_led_payload(img), TestIndexRanges,
                                 0, NoImage), <<>>)
       ELSE Apply(r, [pc |-> "returned", frame |-> frame[r],
                      result |-> "None", events |-> <<>>], <<>>)

\* The caller has its answer; the task's record is dropped.
Release(r) ==
    /\ pc[r] \in {"returned", "raised"}
    /\ pc' = [pc EXCEPT ![r] = "idle"]
    /\ frame' = [frame EXCEPT ![r] = NoFrame]
    /\ result' = [result EXCEPT ![r] = "none"]
    /\ log' = SelectSeq(log, LAMBDA e : e.task # r)
    /\ UNCHANGED <<config, grid_img, payload>>

-----------------------------------------------------------------------------
(* The specifications.                                                     *)

Init ==
    /\ board_names = <<>>
    /\ boards = <<>>
    /\ grid_width = 0
    /\ grid_height = 0
    /\ sleep_time = DefaultSleepTime
    /\ converter = None
    /\ pc = [r \in Tasks |-> "idle"]
    /\ frame = [r \in Tasks |-> NoFrame]
    /\ result = [r \in Tasks |-> "none"]
    /\ log = <<>>
    /\ grid_img = NoImage
    /\ payload = NotReturned

SleepFields == {[present |-> FALSE, value |-> 0]}
               \cup {[present |-> TRUE, value |-> t] : t \in SleepTimes}

Commands ==
    {TextCommand(b) : b \in DisplayBodies}
    \cup {TimeCommand(b) : b \in DisplayBodies}
    \cup {RawCommand(p) : p \in Payloads}
    \cup {ClearCommand}

\* The service, one request at a time.
Next ==
    \/ /\ \A r \in Tasks : pc[r] = "idle"
       /\ \E names \in BoardLists, gw \in GridWidths, gh \in GridHeights,
             st \in SleepFields : Configure(names, gw, gh, st)
    \/ DoCommand(1, Commands, Images(converter))
    \/ CallReturns(1, Images(converter))
    \/ CallFails(1)
    \/ SleepEnds(1, Images(converter))
    \/ Release(1)

Spec == Init /\ [][Next]_vars

\* A direct call of execute_distributed_command, as the test driver makes.
NextDispatch ==
    \/ Call(1, TestComponents, Payloads, RangeLists, SleepTimes)
    \/ CallReturns(1, {NoImage})
    \/ CallFails(1)
    \/ SleepEnds(1, {NoImage})
    \/ Release(1)

SpecDispatch == Init /\ [][NextDispatch]_vars

\* The service as deployed for the test driver's grid (test.py:38-39, 66):
\* two boards, 16 strips of 140 leds, with two requests in flight and the
\* text painted on the first or the last strip.
MinimalBody ==
    [shape |-> "mapping", x_position |-> "num", y_position |-> "num",
     x_offset |-> "absent", y_offset |-> "absent", color |-> "absent",
     rotation |-> "absent", text |-> "str"]

ConcurrentCommands == {TextCommand(MinimalBody), TimeCommand(MinimalBody)}

NextConcurrent ==
    \/ /\ boards = <<>>
       /\ \E st \in SleepFields :
             Configure(TestComponents, DefaultGridHeight, DefaultGridWidth, st)
    \/ \E r \in Tasks :
          \/ DoCommand(r, ConcurrentCommands, EdgeImages(converter))
          \/ CallReturns(r, EdgeImages(converter))
          \/ CallFails(r)
          \/ SleepEnds(r, EdgeImages(converter))

SpecConcurrent == Init /\ [][NextConcurrent]_vars

\* The display operations: the service with its text, time and passthrough
\* commands, and the rounds of the test driver.
DisplayCommands ==
    ConcurrentCommands \cup {RawCommand(p) : p \in Payloads}

NextDisplay ==
    \/ /\ \A r \in Tasks : pc[r] = "idle"
       /\ \E names \in BoardLists, gw \in GridWidths, gh \in GridHeights,
             st \in SleepFields : Configure(names, gw, gh, st)
    \/ DoCommand(1, DisplayCommands, Images(converter))
    \/ TestClear(1)
    \/ CallReturns(1, Images(converter))
    \/ CallFails(1)
    \/ SleepEnds(1, Images(converter))
    \/ TestSleepEnds(1, Images(TestConverter))
    \/ Release(1)

SpecDisplay == Init /\ [][NextDisplay]_vars

\* text_to_led_payload on its own: the composed grid image is any image of
\* a small grid with every pixel black, white or nearly black, and step 5
\* extracts its payload.
Faint == <<0, 0, 1>>
Colours == {Black, White, Faint}

GridImages ==
    UNION {{ImageOf(w, h, pix) :
               pix \in [(0..(w - 1)) \X (0..(h - 1)) -> Colours]} :
           w \in 1..MaxWidth, h \in 1..MaxHeight}

Compose ==
    /\ \E img \in GridImages : grid_img' = img
    /\ payload' = NotReturned
    /\ UNCHANGED <<config, pc, frame, result, log>>

Extract ==
    /\ grid_img # NoImage
    /\ ~payload.returned
    /\ payload' = [returned |-> TRUE, value |-> text_to_led_payload(grid_img)]
    /\ UNCHANGED <<config, pc, frame, result, log, grid_img>>

NextExtract == Compose \/ Extract

SpecExtract == Init /\ [][NextExtract]_vars

-----------------------------------------------------------------------------
(* What the claims speak of.                                               *)

\* The events of a task in the log, and its controller calls.
EventsOf(r) == SelectSeq(log, LAMBDA e : e.task = r)
CallsOf(r) == SelectSeq(log, LAMBDA e : e.task = r /\ e.kind = "call")
SleepsOf(r) == SelectSeq(log, LAMBDA e : e.task = r /\ e.kind = "sleep")

\* A direct call of execute_distributed_command that has returned normally.
Returned(r) == frame[r].stage = "direct" /\ pc[r] = "returned"

\* The global index an entry names.
IndexOf(entry) == int(entry.key)

InRange(i, range) == range[1] <= i /\ i <= range[2]

\* The owner of global index i: the first range in declaration order that
\* holds it; 0 when no range does.
Owner(i, ranges) ==
    IF \E k \in 1..Len(ranges) : InRange(i, ranges[k])
    THEN CHOOSE k \in 1..Len(ranges) :
            /\ InRange(i, ranges[k])
            /\ \A j \in 1..(k - 1) : ~InRange(i, ranges[j])
    ELSE 0

\* Entry p of the payload is delivered to controller c (counted from 0)
\* under local key k: some call to c carries its data under k.
Delivered(r, p, c, k) ==
    \E n \in 1..Len(CallsOf(r)) :
        LET e == CallsOf(r)[n]
        IN  /\ e.comp = c
            /\ k \in DOMAIN e.commands
            /\ e.commands[k] = frame[r].global_payload[p].data

\* Entry p of the payload reaches controller c under some key.
Reaches(r, p, c) ==
    \E n \in 1..Len(CallsOf(r)) :
        LET e == CallsOf(r)[n]
        IN  /\ e.comp = c
            /\ \E k \in DOMAIN e.commands :
                  e.commands[k] = frame[r].global_payload[p].data

\* Entry p is delivered as C1 says: to its owner, rebased, and nowhere else.
DeliveredToOwner(r, p) ==
    LET f == frame[r]
        i == IndexOf(f.global_payload[p])
        o == Owner(i, f.index_ranges)
    IN  o # 0 =>
           /\ Delivered(r, p, o - 1, str(i - f.index_ranges[o][1]))
           /\ \A c \in 0..(Len(f.components) - 1) :
                 c # o - 1 => ~Reaches(r, p, c)

\* A later entry of the payload names the same global index as entry p.
Repeated(f, p) ==
    \E q \in (p + 1)..Len(f.global_payload) :
        IndexOf(f.global_payload[q]) = IndexOf(f.global_payload[p])

\* C1 (as stated): when a call of execute_distributed_command has returned,
\* every payload entry whose global index i lies in some range has been
\* delivered unchanged under local key str(i - start) to the controller of
\* the first such range, and to no other controller.
C1_EveryEntryDelivered ==
    \A r \in Tasks :
        Returned(r) =>
            \A p \in 1..Len(frame[r].global_payload) : DeliveredToOwner(r, p)

\* C1 (amended): the same for every entry whose global index no later entry
\* of the payload names again.
C1_LastEntryDelivered ==
    \A r \in Tasks :
        Returned(r) =>
            \A p \in 1..Len(frame[r].global_payload) :
                ~Repeated(frame[r], p) => DeliveredToOwner(r, p)

\* A returned call in which an entry was rebased (its owner starts above 0)
\* and delivered to the second controller.
C1_Witness ==
    /\ Returned(1)
    /\ \E p \in 1..Len(frame[1].global_payload) :
          LET i == IndexOf(frame[1].global_payload[p])
              o == Owner(i, frame[1].index_ranges)
          IN  /\ o = 2
              /\ frame[1].index_ranges[o][1] > 0
              /\ ~Repeated(frame[1], p)
              /\ Delivered(1, p, 1, str(i - frame[1].index_ranges[o][1]))

\* C2 (as stated): the controllers of one call of
\* execute_distributed_command are called in ascending order of their
\* position in index_ranges.
C2_AscendingControllers ==
    \A r \in Tasks :
        frame[r].stage = "direct" =>
            \A a, b \in 1..Len(CallsOf(r)) :
                a < b => CallsOf(r)[a].comp < CallsOf(r)[b].comp

\* C3 (as stated): a returned call with settle delay D > 0 and k >= 1
\* controller calls has slept exactly k - 1 times.
C3_SleepsBetweenCalls ==
    \A r \in Tasks :
        (Returned(r) /\ frame[r].sleep_time > 0 /\ Len(CallsOf(r)) >= 1)
            => Len(SleepsOf(r)) = Len(CallsOf(r)) - 1

\* The entries of the payload whose index no range holds.
Unowned(f) ==
    {p \in 1..Len(f.global_payload) :
        Owner(IndexOf(f.global_payload[p]), f.index_ranges) = 0}

\* C8: an entry whose global index lies outside every range reaches no
\* controller and raises no error, and the other entries are dispatched
\* as usual: in a call whose keys are all numbers nothing but a controller
\* fails, and once the call has returned the entries not repeated later
\* are with their owners.
C8_UnownedDropped ==
    \A r \in Tasks :
        (/\ frame[r].stage = "direct"
         /\ \A p \in 1..Len(frame[r].global_payload) :
               IsInt(frame[r].global_payload[p].key))
        =>
            /\ \A p \in Unowned(frame[r]) :
                  \A c \in 0..(Len(frame[r].components) - 1) : ~Reaches(r, p, c)
            /\ result[r] \in {"none", "None", "ControllerError"}
            /\ Returned(r) =>
                  \A p \in 1..Len(frame[r].global_payload) :
                      (p \notin Unowned(frame[r]) /\ ~Repeated(frame[r], p))
                          => Delivered(r, p,
                                 Owner(IndexOf(frame[r].global_payload[p]),
                                       frame[r].index_ranges) - 1,
                                 str(IndexOf(frame[r].global_payload[p])
                                     - frame[r].index_ranges[
                                           Owner(IndexOf(frame[r].global_payload[p]),
                                                 frame[r].index_ranges)][1]))

\* A returned call whose payload held an entry outside every range and an
\* entry that was delivered.
C8_Witness ==
    /\ Returned(1)
    /\ Unowned(frame[1]) # {}
    /\ Len(CallsOf(1)) >= 1
    /\ Len(frame[1].index_ranges) >= 1

-----------------------------------------------------------------------------
(* The claims about the service.                                           *)

\* The positions in the log of the calls a task issued in a stage.
CallPositions(r, stage) ==
    {n \in 1..Len(log) :
        log[n].task = r /\ log[n].kind = "call" /\ log[n].stage = stage}

\* The call at position n of the log has completed before position m.
CompletedBefore(n, m) ==
    \E j \in (n + 1)..(m - 1) :
        /\ log[j].task = log[n].task
        /\ log[j].kind = "ok"
        /\ log[j].stage = log[n].stage
        /\ log[j].comp = log[n].comp

\* C4 (as stated, for its conclusion): when a set_pixel_colors command of
\* the new frame is issued, every clear call of the operation has completed,
\* and every strip the draw call writes was cleared: a completed clear call
\* to the same controller carries the solid black command for that strip.
C4_ClearedBeforeDrawn ==
    \A r \in Tasks :
        \A m \in CallPositions(r, "draw") :
            /\ \A n \in CallPositions(r, "clear") : CompletedBefore(n, m)
            /\ \A k \in DOMAIN log[m].commands :
                  \E n \in CallPositions(r, "clear") :
                      /\ n < m
                      /\ log[n].comp = log[m].comp
                      /\ k \in DOMAIN log[n].commands
                      /\ log[n].commands[k] = SolidBlack
                      /\ CompletedBefore(n, m)

\* C5 (as stated): no controller call of one request is issued between two
\* controller calls of another request.
C5_OperationsSerialized ==
    \A a, b, c \in 1..Len(log) :
        (/\ a < b /\ b < c
         /\ log[a].kind = "call" /\ log[b].kind = "call" /\ log[c].kind = "call"
         /\ log[a].task = log[c].task)
        => log[b].task = log[a].task

\* The errors the validation of a display command raises.
ValidationErrors ==
    {"TypeError",
     "ValueError: x_position and y_position are required",
     "ValueError: x_position and y_position must be numeric values",
     "ValueError: x_offset and y_offset must be numeric values",
     "ValueError: Invalid color format",
     "ValueError: rotation must be a numeric value",
     "ValueError: text is required in text command"}

C7_FailurePropagates ==
    \A r \in Tasks :
        \A n \in 1..Len(EventsOf(r)) :
            EventsOf(r)[n].kind = "error"
                => /\ n = Len(EventsOf(r))
                   /\ pc[r] = "raised"
                   /\ result[r] = "ControllerError"

\* A clear whose first controller call succeeded and whose second failed.
C7_Witness ==
    /\ result[1] = "ControllerError"
    /\ frame[1].stage = "clear"
    /\ Len(CallsOf(1)) = 2
    /\ Len(frame[1].component_commands) = 2

\* C9 (as stated): a "clear" request to a service with two boards or more
\* that has ended without a controller failing has returned success, and every strip a range owns was sent the
\* solid black command.
C9_ClearRequestClears ==
    \A r \in Tasks :
        (/\ frame[r].stage = "raw"
         /\ frame[r].global_payload = ClearCommand.payload
         /\ Len(boards) >= 2
         /\ pc[r] \in {"returned", "raised"}
         /\ result[r] # "ControllerError")
        =>
            /\ result[r] = "success"
            /\ \A c \in 1..Len(frame[r].index_ranges) :
                  \A i \in frame[r].index_ranges[c][1]..frame[r].index_ranges[c][2] :
                      i < grid_height =>
                          \E n \in 1..Len(CallsOf(r)) :
                              /\ CallsOf(r)[n].comp = c - 1
                              /\ str(i - frame[r].index_ranges[c][1])
                                     \in DOMAIN CallsOf(r)[n].commands

\* C10 (as stated, for the service): the clear payload of a display
\* operation has one entry per strip of the configured grid, keys "0" to
\* "n-1", each the solid black command.
C10_ClearPayloadPerStrip ==
    \A r \in Tasks :
        frame[r].stage = "clear" =>
            /\ Len(frame[r].global_payload) = grid_height
            /\ \A p \in 1..Len(frame[r].global_payload) :
                  /\ frame[r].global_payload[p].key = str(p - 1)
                  /\ frame[r].global_payload[p].data = SolidBlack

-----------------------------------------------------------------------------
(* The skipped controllers.                                                *)

\* The local payload of controller c (counted from 0) is empty: no entry of
\* the global payload names an index that c owns.
LocalEmpty(f, c) ==
    \A p \in 1..Len(f.global_payload) :
        IsInt(f.global_payload[p].key)
            => Owner(IndexOf(f.global_payload[p]), f.index_ranges) # c + 1

\* C11: in a call of execute_distributed_command no event (call, return,
\* failure or sleep) belongs to a controller whose local payload is empty,
\* no call carries an empty command dict, and a call with an empty global
\* payload makes no call and no sleep and returns.
C11_EmptyLocalSkipped ==
    \A r \in Tasks :
        frame[r].stage = "direct" =>
            /\ \A n \in 1..Len(EventsOf(r)) :
                  /\ ~LocalEmpty(frame[r], EventsOf(r)[n].comp)
                  /\ EventsOf(r)[n].kind = "call"
                        => DOMAIN EventsOf(r)[n].commands # {}
            /\ Len(frame[r].global_payload) = 0
                  => Len(EventsOf(r)) = 0 /\ pc[r] = "returned"

\* A returned call with a settle delay over two ranges in which the first
\* controller had nothing to do and the second was called and slept for.
C11_Witness ==
    /\ Returned(1)
    /\ frame[1].sleep_time > 0
    /\ Len(frame[1].index_ranges) = 2
    /\ LocalEmpty(frame[1], 0)
    /\ Len(CallsOf(1)) = 1
    /\ CallsOf(1)[1].comp = 1
    /\ Len(SleepsOf(1)) = 1

-----------------------------------------------------------------------------
(* The final delay.                                                        *)

\* The task has made a controller call, and after its last one it has
\* begun a sleep.
SleptAfterLastCall(r) ==
    LET es == EventsOf(r)
    IN  \E n \in 1..Len(es) :
           /\ es[n].kind = "call"
           /\ \A m \in (n + 1)..Len(es) : es[m].kind # "call"
           /\ \E m \in (n + 1)..Len(es) : es[m].kind = "sleep"

-----------------------------------------------------------------------------
(* The payload extraction.                                                 *)

\* The payload has an entry for pixel (x, y): the entry of key str(y) holds
\* the led key str(x).
HasPixel(pl, x, y) ==
    \E p \in 1..Len(pl) :
        /\ pl[p].key = str(y)
        /\ str(x) \in DOMAIN pl[p].data.set_pixel_colors

\* C13: the payload extracted from a grid image has an entry for pixel
\* (x, y) exactly when the pixel is not black, and the entry holds the pixel's
\* colour; every key is a row of the image and occurs once, every entry has
\* the set_pixel_colors shape alone, names leds of the image only, and is
\* not empty (a row of black pixels has no key).
C13_ExtractsNonBlack ==
    payload.returned =>
        /\ \A x \in 0..(grid_img.width - 1), y \in 0..(grid_img.height - 1) :
              /\ HasPixel(payload.value, x, y) <=> grid_img.pix[<<x, y>>] # Black
              /\ \A p \in 1..Len(payload.value) :
                    (payload.value[p].key = str(y) /\ HasPixel(payload.value, x, y))
                        => payload.value[p].data.set_pixel_colors[str(x)]
                               = grid_img.pix[<<x, y>>]
        /\ \A p \in 1..Len(payload.value) :
              /\ DOMAIN payload.value[p].data = {"set_pixel_colors"}
              /\ DOMAIN payload.value[p].data.set_pixel_colors # {}
              /\ DOMAIN payload.value[p].data.set_pixel_colors
                    \subseteq {str(x) : x \in 0..(grid_img.width - 1)}
              /\ \E y \in 0..(grid_img.height - 1) : payload.value[p].key = str(y)
              /\ \A q \in 1..Len(payload.value) :
                    payload.value[q].key = payload.value[p].key => q = p

\* The payload of an image with a row of black pixels only and a row with a
\* black and a nearly black pixel: one entry, of one led.
C13_Witness ==
    /\ payload.returned
    /\ grid_img.width = 2
    /\ grid_img.height = 2
    /\ grid_img.pix[<<0, 0>>] = Black /\ grid_img.pix[<<1, 0>>] = Black
    /\ grid_img.pix[<<0, 1>>] = Black /\ grid_img.pix[<<1, 1>>] = Faint
    /\ Len(payload.value) = 1
    /\ payload.value[1].key = str(1)
    /\ DOMAIN payload.value[1].data.set_pixel_colors = {str(1)}

-----------------------------------------------------------------------------
(* The configured ranges and controllers.                                  *)

\* C14 (as stated): on a service with at least one board the index ranges
\* hold one range per controller, and every strip from 0 up to the last
\* strip the ranges are built for (grid_width - 1, the rows of the draw
\* payload) lies in exactly one range.
C14_RangesPartition ==
    Len(boards) >= 1 =>
        LET index_ranges == _get_index_ranges(boards, grid_width)
        IN  /\ Len(index_ranges) = Len(boards)
            /\ \A i \in 0..(grid_width - 1) :
                  Cardinality({k \in 1..Len(index_ranges) :
                                  InRange(i, index_ranges[k])}) = 1

\* C15 (as stated): the controller list the dispatch uses holds exactly one
\* handle per configured board name, in the configured order (a handle is
\* known by the name of its board).
C15_BoardsAsConfigured ==
    /\ Len(boards) = Len(board_names)
    /\ \A i \in 1..Len(board_names) : boards[i] = board_names[i]

=============================================================================
